---- MODULE Spec2Model ----
(***************************************************************************)
(* TalentScout hiring assistant: the conversation stage machine of         *)
(* utils/conversation.py (ConversationManager) together with the question  *)
(* generation of utils/tech_questions.py and utils/llm_router.py, the      *)
(* language switch of utils/language_manager.py and the session file of    *)
(* utils/data_handler.py.  The provider chain of LLMRouter.get_response    *)
(* is followed call by call under SpecRouter; the session file, its        *)
(* failures and the construction of a manager from it under SpecStorage;   *)
(* the phone, experience and tech-stack extractors are applied to single   *)
(* messages under SpecExtract, and two managers share one session id under *)
(* SpecShared.  SpecProgress is the session of a candidate who keeps       *)
(* answering, SpecQuestions is one call of the question generator, and     *)
(* SpecHistory adds switch_conversation_language to the messages.          *)
(*                                                                         *)
(* A user message is described by what the regular expressions of the      *)
(* extractors find in its text (the candidate matches); the validators and *)
(* the stage logic are then computed as the code computes them.  A stored  *)
(* message (history entry, technical answer, sentiment entry) is           *)
(* identified by the number of the turn that delivered it.                 *)
(***************************************************************************)
EXTENDS Integers, Sequences, FiniteSets, TLC

(* ------------------------------ bounds --------------------------------- *)
\* writes of the session file that may fail
MaxFaults == 1

\* messages handled by one manager between two resets
MaxTurns == 11
\* messages sent to one manager of a session that two managers share
MaxSharedTurns == 7
\* longest run of digits of a phone text
MaxDigits == 17
\* largest number of years of an experience text, in tenths of a year
MaxTenths == 510
\* technologies and abbreviations mentioned in one message
MaxMentions == 3
\* technologies of a tech_stack handed to the question generator
MaxStack == 6
\* calls of switch_conversation_language in one session
MaxSwitches == 1
(* -------------------------- program constants -------------------------- *)
MIN_TECHNICAL_QUESTIONS == 3
MAX_TECHNICAL_QUESTIONS == 5
MAX_HISTORY_LENGTH == 10

\* Python's None for an extractor that found nothing
None == "None"
\* no number found by the experience patterns
NoNumber == -1

STAGES ==
  [greeting |-> 0, name |-> 1, contact_info |-> 2, experience |-> 3,
   position |-> 4, location |-> 5, tech_stack |-> 6,
   technical_questions |-> 7, farewell |-> 8, complete |-> 9]

\* the stages of STAGES that have an entry in REQUIRED_FIELDS, in the
\* iteration order of STAGES.items()
StageOrder ==
  <<"name", "contact_info", "experience", "position", "location", "tech_stack">>

REQUIRED_FIELDS ==
  [name |-> {"name"}, contact_info |-> {"email", "phone"},
   experience |-> {"years_experience"}, position |-> {"position"},
   location |-> {"location"}, tech_stack |-> {"tech_stack"}]

\* the fields REQUIRED_FIELDS gives to the stage with index st
StageFields(st) ==
  UNION {REQUIRED_FIELDS[s] : s \in {x \in DOMAIN REQUIRED_FIELDS :
                                       STAGES[x] = st}}

(* --------------------------- dictionaries ------------------------------ *)
\* a Python dict is a function whose domain is the set of keys present
EmptyDict == [k \in {} |-> TRUE]

Has(d, k) == k \in DOMAIN d

Get(d, k, default) == IF k \in DOMAIN d THEN d[k] ELSE default

Put(d, k, v) == (k :> v) @@ d

Min(S) == CHOOSE x \in S : \A y \in S : x <= y

Smaller(a, b) == IF a <= b THEN a ELSE b

\* A phone-like text: whether it starts with '+', how many digits it has,
\* and how the digits are written:
\*   "run"     one run of digits
\*   "dashed"  an optional country code and groups of 3, 3 and 4 digits,
\*             separated by '-'
\*   "spaced"  single digits separated by blanks
PhoneText(plus, digits, form) ==
  [plus |-> plus, digits |-> digits, form |-> form]

\* no phone-like text, and the result of a pattern that has no match
NoPhone == PhoneText(FALSE, 0, "none")

(* ----------------------------- messages -------------------------------- *)
\* What the patterns of the extractors and of the language detector find in
\* a message text:
\*   exit      an EXIT_KEYWORDS entry is a substring of the lowered text
\*   blank     the text is empty or whitespace
\*   words     number of whitespace-separated words
\*   intro     language of the introduction phrase ("my name is", "me llamo")
\*   name      the valid name captured after the introduction phrase
\*   clean     the cleaned text when it passes _validate_name
\*   email     first match of the email pattern
\*   phone     the phone-like text of the message
\*   tenths    number before a year token, in tenths of a year
\*   negative  the number is written with a minus sign
\*   position  curated role or short text found by _extract_position
\*   location  gazetteer or pattern match found by _extract_location
\*   tech      the vocabulary entries and abbreviations that occur as whole
\*             words, in the order of their first occurrence in the text
\*   lang,conf result of detect_language_with_confidence, conf in percent
Quiet ==
  [exit |-> FALSE, blank |-> FALSE, words |-> 12, intro |-> "none",
   name |-> None, clean |-> None, email |-> None, phone |-> NoPhone,
   tenths |-> NoNumber, negative |-> FALSE,
   position |-> None, location |-> None, tech |-> << >>,
   lang |-> "en", conf |-> 0]

\* "??"
Unclear == Quiet

\* ""
Blank == [Quiet EXCEPT !.blank = TRUE, !.words = 0]

\* "John Smith"
ShortName ==
  [Quiet EXCEPT !.words = 2, !.clean = "John Smith",
                !.position = "John Smith", !.location = "John Smith"]

\* "ok: my name is Jane Doe # # # # # #"
Introduction == [Quiet EXCEPT !.intro = "en", !.name = "Jane Doe"]

\* "ok: john.smith@example.com +1-555-123-4567 # # # # # #"
Contact ==
  [Quiet EXCEPT !.email = "john.smith@example.com",
                !.phone = PhoneText(TRUE, 11, "dashed")]

\* "ok: jane@corp.org # # # # # #"
EmailOnly == [Quiet EXCEPT !.email = "jane@corp.org"]

\* "ok: 5551234567 # # # # # #"
PhoneOnly == [Quiet EXCEPT !.phone = PhoneText(FALSE, 10, "run")]

\* "ok: +1 2 3 4 5 # # # # # #": the international pattern matches a
\* candidate of 5 digits
ShortPhone == [Quiet EXCEPT !.phone = PhoneText(TRUE, 5, "spaced")]

\* "ok: 5 years # # # # # #"
FiveYears == [Quiet EXCEPT !.tenths = 50]

\* "ok: 60 years # # # # # #"
SixtyYears == [Quiet EXCEPT !.tenths = 600]

\* "ok: software engineer # # # # # #"
Role == [Quiet EXCEPT !.position = "Software Engineer"]

\* "ok: Mumbai # # # # # #"
City == [Quiet EXCEPT !.location = "Mumbai, India"]

\* "ok: Mumbai/Python # # # # # #"
CityAndSkill ==
  [Quiet EXCEPT !.location = "Mumbai, India", !.tech = <<"Python">>]

\* "ok: Python/React # # # # # #"
TwoSkills == [Quiet EXCEPT !.tech = <<"Python", "React">>]

\* "ok: Python/React/AWS # # # # # #"
ThreeSkills == [Quiet EXCEPT !.tech = <<"Python", "React", "AWS">>]

\* "bye"
Bye ==
  [Quiet EXCEPT !.exit = TRUE, !.words = 1, !.clean = "bye",
                !.position = "Bye"]

\* "Hola buenos dias mi nombre es Juan gracias por favor"
SpanishIntroduction ==
  [Quiet EXCEPT !.words = 10, !.intro = "es",
                !.name = "Juan gracias por favor",
                !.lang = "es", !.conf = 75]

\* "ok: hola me llamo Juan y tengo cinco años de experiencia"
SpanishHint == [Quiet EXCEPT !.words = 11, !.lang = "es", !.conf = 66]

\* "Hola, me llamo Juan y soy de Quito, gracias por su tiempo": "quito"
\* holds the exit keyword "quit"
SpanishFromQuito ==
  [Quiet EXCEPT !.exit = TRUE, !.intro = "es", !.name = "Juan",
                !.lang = "es", !.conf = 75]

\* the messages of an interview held in English
Messages ==
  {Unclear, Blank, ShortName, Introduction, Contact, EmailOnly, PhoneOnly,
   ShortPhone, FiveYears, SixtyYears, Role, City, CityAndSkill, TwoSkills,
   ThreeSkills, Bye}

\* the messages of an interview in which the candidate turns to Spanish
LanguageMessages ==
  {Unclear, ShortName, Contact, FiveYears, Role, CityAndSkill,
   SpanishIntroduction, SpanishHint, SpanishFromQuito}

\* number of digits left by re.sub(r'\D', '', phone)
Digits(phone) == phone.digits

(* ----------------------------- extractors ------------------------------ *)
\* An Optional result is a sequence: << >> for None, <<v>> for the value v.
Found(opt) == opt # << >>

Value(opt) == opt[1]

\* languages that have their own introduction patterns
NamePatternLanguages == {"en", "es", "fr"}

_extract_name(message, language) ==
  LET patterns == IF language \in NamePatternLanguages THEN language ELSE "en"
  IN  IF message.intro = patterns /\ message.name # None
        THEN <<message.name>>
      ELSE IF message.words <= 4 /\ message.clean # None
        THEN <<message.clean>>
      ELSE << >>

_extract_email(message) ==
  IF message.email # None THEN <<message.email>> ELSE << >>

_validate_phone(phone) ==
  phone # NoPhone /\ 7 <= Digits(phone) /\ Digits(phone) <= 15

\* match.group(0) of re.search for each of the four phone_patterns, NoPhone
\* where the pattern has no match
phone_patterns(text) ==
  << \* international: '+' and five groups of 1-4, 1-4, 1-4, 1-4 and 1-9
     \* digits, each optionally preceded by one separator
     IF ~text.plus \/ text.digits < 5 THEN NoPhone
     ELSE IF text.form = "run"
       THEN PhoneText(TRUE, Smaller(text.digits, 25), "run")
     ELSE IF text.form = "spaced" THEN PhoneText(TRUE, 5, "spaced")
     ELSE text,
     \* (ddd) ddd-dddd: none of the texts has parentheses
     NoPhone,
     \* ddd-ddd-dddd with optional separators: the first ten digits
     IF text.form \in {"run", "dashed"} /\ text.digits >= 10
       THEN PhoneText(FALSE, 10, text.form) ELSE NoPhone,
     \* a run of 10 to 15 digits
     IF text.form = "run" /\ text.digits >= 10
       THEN PhoneText(FALSE, Smaller(text.digits, 15), "run") ELSE NoPhone >>

\* the match of the first pattern whose match is valid
_extract_phone(message) ==
  LET matches == phone_patterns(message.phone)
      valid == {i \in 1..Len(matches) : _validate_phone(matches[i])}
  IN  IF valid = {} THEN << >> ELSE <<matches[Min(valid)]>>

\* int(years) if years == int(years) else years: the stored number keeps its
\* Python type
_extract_experience(message) ==
  IF message.tenths # NoNumber /\ 0 <= message.tenths /\ message.tenths <= 500
    THEN <<[int |-> message.tenths % 10 = 0, tenths |-> message.tenths]>>
    ELSE << >>

_extract_position(message) ==
  IF message.position # None THEN <<message.position>> ELSE << >>

_extract_location(message) ==
  IF message.location # None THEN <<message.location>> ELSE << >>

\* config.TECH_CATEGORIES in the order of its items, then additional_techs
all_technologies ==
  <<"Python", "JavaScript", "Java", "C#", "C++", "Go", "Ruby", "PHP", "Swift",
    "Kotlin",
    "React", "Angular", "Vue.js", "Django", "Flask", "Spring", "ASP.NET",
    "Laravel", "Ruby on Rails",
    "MySQL", "PostgreSQL", "MongoDB", "SQLite", "Redis", "Oracle",
    "SQL Server", "DynamoDB",
    "AWS", "Azure", "Google Cloud", "Firebase", "Heroku", "Netlify",
    "Docker", "Kubernetes", "Git", "Jenkins", "Travis CI", "Jira",
    "Confluence",
    "HTML", "CSS", "SASS", "SCSS", "TypeScript", "GraphQL", "REST API",
    "Microservices", "Agile", "Scrum", "TDD", "CI/CD", "DevOps",
    "Machine Learning", "Deep Learning", "AI", "Blockchain">>

\* the abbreviations, in the order of the items of the dict
tech_variations ==
  <<[variation |-> "js", full_name |-> "JavaScript"],
    [variation |-> "ts", full_name |-> "TypeScript"],
    [variation |-> "py", full_name |-> "Python"],
    [variation |-> "react.js", full_name |-> "React"],
    [variation |-> "vue.js", full_name |-> "Vue.js"],
    [variation |-> "node.js", full_name |-> "Node.js"],
    [variation |-> "express.js", full_name |-> "Express.js"]>>

\* the loop over all_technologies appends the entries found, in the order of
\* the vocabulary; the loop over tech_variations then appends the full names
\* that are not in the list yet
_extract_tech_stack(message) ==
  LET mentioned == {message.tech[i] : i \in 1..Len(message.tech)}
      exact == SelectSeq(all_technologies, LAMBDA tech : tech \in mentioned)
      listed == {exact[i] : i \in 1..Len(exact)}
      varied == SelectSeq(tech_variations,
                          LAMBDA v : v.variation \in mentioned
                                       /\ v.full_name \notin listed)
      found_technologies ==
        exact \o [i \in 1..Len(varied) |-> varied[i].full_name]
  IN  IF found_technologies # << >> THEN <<found_technologies>> ELSE << >>

\* Sensitivity variant: an extraction without the "field not in
\* candidate_data" guard.
ExtractFieldOverwriting(data, st, stageName, field, opt) ==
  IF st = STAGES[stageName] /\ Found(opt)
    THEN Put(data, field, Value(opt)) ELSE data

\* one guarded extraction of _extract_multilingual_info
ExtractField(data, st, stageName, field, opt) ==
  IF st = STAGES[stageName] /\ ~Has(data, field) /\ Found(opt)
    THEN Put(data, field, Value(opt)) ELSE data

\* Sensitivity variant: the extractors of name, email, phone and position run
\* whatever self.stage is.
ExtractInEveryStage(data, st, message, language) ==
  LET d1 == ExtractField(data, STAGES.name, "name", "name",
                         _extract_name(message, language))
      d2 == ExtractField(d1, STAGES.contact_info, "contact_info", "email",
                         _extract_email(message))
      d3 == ExtractField(d2, STAGES.contact_info, "contact_info", "phone",
                         _extract_phone(message))
  IN  ExtractField(d3, STAGES.position, "position", "position",
                   _extract_position(message))

_extract_multilingual_info(data, st, message, language) ==
  LET d1 == ExtractField(data, st, "name", "name",
                         _extract_name(message, language))
      d2 == ExtractField(d1, st, "contact_info", "email",
                         _extract_email(message))
      d3 == ExtractField(d2, st, "contact_info", "phone",
                         _extract_phone(message))
      d4 == ExtractField(d3, st, "experience", "years_experience",
                         _extract_experience(message))
      d5 == ExtractField(d4, st, "position", "position",
                         _extract_position(message))
      d6 == ExtractField(d5, st, "location", "location",
                         _extract_location(message))
  IN  ExtractField(d6, st, "tech_stack", "tech_stack",
                   _extract_tech_stack(message))

(* ---------------------------- stage machine ---------------------------- *)
Unsatisfied(data) ==
  {i \in 1..Len(StageOrder) :
     ~(REQUIRED_FIELDS[StageOrder[i]] \subseteq DOMAIN data)}

Max(S) == CHOOSE x \in S : \A y \in S : x >= y

\* Sensitivity variant: the last stage with a missing field is selected
\* instead of the first.
DetermineLastUnsatisfied(data) ==
  IF DOMAIN data = {} THEN STAGES.greeting
  ELSE IF Get(data, "conversation_complete", FALSE) THEN STAGES.complete
  ELSE IF Unsatisfied(data) # {}
    THEN STAGES[StageOrder[Max(Unsatisfied(data))]]
  ELSE STAGES.technical_questions

\* Sensitivity variant: the conversation_complete flag is not looked at.
DetermineIgnoringCompletion(data) ==
  IF DOMAIN data = {} THEN STAGES.greeting
  ELSE IF Unsatisfied(data) # {}
    THEN STAGES[StageOrder[Min(Unsatisfied(data))]]
  ELSE IF ~Has(data, "technical_questions") THEN STAGES.technical_questions
  ELSE IF ~Has(data, "technical_answers")
          \/ Len(data["technical_answers"]) < Len(data["technical_questions"])
    THEN STAGES.technical_questions
  ELSE STAGES.farewell

_determine_current_stage(data) ==
  IF DOMAIN data = {} THEN STAGES.greeting
  ELSE IF Get(data, "conversation_complete", FALSE) THEN STAGES.complete
  ELSE IF Unsatisfied(data) # {}
    THEN STAGES[StageOrder[Min(Unsatisfied(data))]]
  ELSE IF ~Has(data, "technical_questions") THEN STAGES.technical_questions
  ELSE IF ~Has(data, "technical_answers")
          \/ Len(data["technical_answers"]) < Len(data["technical_questions"])
    THEN STAGES.technical_questions
  ELSE STAGES.farewell

(* ------------------------------ replies -------------------------------- *)
\* A reply is described by the code path that produced its text:
\*   llm         text generated by a provider for the prompt (template,
\*               next_info), requested with use_case
\*   canned      the fallback string stored under key use_case for lang
\*   greeting, completion, exit, first_question, next_question,
\*   all_answered, let_me_ask   the fixed texts of the handlers
\* notice is set when the language notice is put in front of the reply.
NoReply ==
  [kind |-> "none", template |-> "", next_info |-> "", use_case |-> "",
   idx |-> -1, lang |-> "", notice |-> FALSE]

Fixed(kind, language) == [NoReply EXCEPT !.kind = kind, !.lang = language]

Question(kind, idx) == [NoReply EXCEPT !.kind = kind, !.idx = idx]

Prompt(template, next_info) == [template |-> template, next_info |-> next_info]

\* keys of fallback_responses
FallbackKeys ==
  {"greeting", "name", "contact_info", "experience", "position", "location",
   "tech_stack", "technical_questions", "farewell", "general"}

\* a router that answers every failure with the apology
ApologyForEveryUseCase(use_case) ==
  [NoReply EXCEPT !.kind = "canned", !.lang = "en", !.use_case = "general"]

_get_fallback_response(use_case) ==
  [NoReply EXCEPT !.kind = "canned", !.lang = "en",
                  !.use_case = IF use_case \in FallbackKeys
                                 THEN use_case ELSE "general"]

\* languages and keys of localized_fallbacks
LocalizedLanguages == {"en", "es", "fr", "de", "it", "pt", "hi"}

_get_localized_fallback_response(use_case, language) ==
  [NoReply EXCEPT !.kind = "canned",
                  !.lang = IF language \in LocalizedLanguages
                             THEN language ELSE "en",
                  !.use_case = IF use_case \in {"greeting", "general"}
                                 THEN use_case ELSE "general"]

\* llm: the primary provider or one of the fallback models returned content
get_response(prompt, use_case, llm) ==
  IF llm
    THEN [NoReply EXCEPT !.kind = "llm", !.template = prompt.template,
                         !.next_info = prompt.next_info,
                         !.use_case = use_case, !.lang = "en"]
    ELSE _get_fallback_response(use_case)

get_multilingual_response(prompt, language, use_case, llm) ==
  IF language = "en" THEN get_response(prompt, use_case, llm)
  ELSE IF llm
    THEN [NoReply EXCEPT !.kind = "llm", !.template = prompt.template,
                         !.next_info = prompt.next_info,
                         !.use_case = use_case, !.lang = language]
  ELSE _get_localized_fallback_response(use_case, language)

\* languages of completion_messages
CompletionLanguages == {"en", "es", "fr", "de", "it", "pt", "hi"}

\* Sensitivity variant: the completion message ignores the language.
EnglishCompletionMessage(language) == Fixed("completion", "en")

_get_completion_message(language) ==
  Fixed("completion",
        IF language \in CompletionLanguages THEN language ELSE "en")

(* ------------------------------ history -------------------------------- *)
HistoryEntry(role, t) == [role |-> role, turn |-> t]

LastN(seq, n) ==
  IF Len(seq) > n THEN SubSeq(seq, Len(seq) - n + 1, Len(seq)) ELSE seq

\* Sensitivity variant: a full history keeps its oldest entries.
KeepOldest(hist, role, t) ==
  LET appended == Append(hist, HistoryEntry(role, t))
  IN  IF Len(appended) > MAX_HISTORY_LENGTH * 2
        THEN SubSeq(appended, 1, MAX_HISTORY_LENGTH * 2)
        ELSE appended

_update_history(hist, role, t) ==
  LastN(Append(hist, HistoryEntry(role, t)), MAX_HISTORY_LENGTH * 2)

preserve_context_across_languages(hist, t) ==
  IF hist = << >> THEN hist
  ELSE Append(LastN(hist, 10), HistoryEntry("system", t))

\* Sensitivity variant: a medium-confidence detection already switches.
SwitchOnAnyHint(message, language) ==
  IF message.blank \/ message.lang = language \/ message.conf < 50
    THEN [lang |-> language, switched |-> FALSE, notice |-> FALSE]
  ELSE [lang |-> message.lang, switched |-> TRUE, notice |-> TRUE]

\* LanguageManager.auto_switch_language: (new_language, switched, message)
auto_switch_language(message, language) ==
  IF message.blank \/ message.lang = language
    THEN [lang |-> language, switched |-> FALSE, notice |-> FALSE]
  ELSE IF message.conf >= 70
    THEN [lang |-> message.lang, switched |-> TRUE, notice |-> TRUE]
  ELSE IF message.conf >= 50
    THEN [lang |-> language, switched |-> FALSE, notice |-> TRUE]
  ELSE [lang |-> language, switched |-> FALSE, notice |-> FALSE]

(* ------------------------- question generation ------------------------ *)
\* a question: where its text comes from and what it is about
Q(src, key) == [src |-> src, key |-> key]

QKeys == <<"q1", "q2", "q3", "q4", "q5", "q6">>

Larger(a, b) == IF a >= b THEN a ELSE b

\* the canned apology as generate_technical_questions reads it: no array,
\* one line with a question mark
Apology == [json |-> 0, bad |-> FALSE, lines |-> 1]

\* What the provider chain returned for the question prompt:
\*   json   number of strings of the JSON array found in the text, 0 if none
\*   bad    json.loads raises on the text matched by the array pattern
\*   lines  number of lines of the text that contain a question mark
ProviderResponses ==
  { \* every provider failed: the canned apology, one line with a '?'
    [json |-> 0, bad |-> FALSE, lines |-> 1],
    \* an array of three questions on one line
    [json |-> 3, bad |-> FALSE, lines |-> 1],
    \* an array of six questions on one line
    [json |-> 6, bad |-> FALSE, lines |-> 1],
    \* a numbered list of four questions, no array
    [json |-> 0, bad |-> FALSE, lines |-> 4],
    \* an array of two questions, one per line
    [json |-> 2, bad |-> FALSE, lines |-> 2],
    \* text that matches the array pattern but is no JSON
    [json |-> 2, bad |-> TRUE, lines |-> 0],
    \* an array with unescaped quotes inside its strings, one question per
    \* line: it matches the array pattern but is no JSON
    [json |-> 3, bad |-> TRUE, lines |-> 3] }

\* LLMRouter.generate_technical_questions
generate_technical_questions(tech_stack, resp) ==
  LET generic(src) ==
        [i \in 1..Smaller(Len(tech_stack), MIN_TECHNICAL_QUESTIONS) |->
           Q(src, tech_stack[i])]
  IN  IF resp.json > 0 /\ resp.bad THEN generic("could_you_describe")
      ELSE IF resp.json >= MIN_TECHNICAL_QUESTIONS
        THEN [i \in 1..Smaller(resp.json, MAX_TECHNICAL_QUESTIONS) |->
                Q("json", QKeys[i])]
      ELSE IF resp.lines >= MIN_TECHNICAL_QUESTIONS
        THEN [i \in 1..Smaller(resp.lines, MAX_TECHNICAL_QUESTIONS) |->
                Q("line", QKeys[i])]
      ELSE generic("please_explain")

\* random.shuffle(techs_to_use): any order of the stack
Shuffles(tech_stack) ==
  {p \in [1..Len(tech_stack) -> {tech_stack[i] : i \in 1..Len(tech_stack)}] :
     \A i, j \in 1..Len(tech_stack) : i # j => p[i] # p[j]}

\* Sensitivity variant: no template questions are produced.
NoFallbackQuestions(shuffled, num_questions) == << >>

\* one templated question per technology of the shuffled stack; the
\* question_cache is never filled (cache_questions has no caller)
_generate_fallback_questions(shuffled, num_questions) ==
  [i \in 1..Smaller(Len(shuffled), num_questions) |->
     Q("template", shuffled[i])]

_generate_tech_specific_questions(tech_stack, num_questions, resp, shuffled) ==
  LET questions == generate_technical_questions(tech_stack, resp)
  IN  IF questions # << >> /\ Len(questions) >= num_questions
        THEN SubSeq(questions, 1, num_questions)
        ELSE _generate_fallback_questions(shuffled, num_questions)

\* random.sample(general_questions, count): the sample is not distinguished
_generate_general_questions ==
  [i \in 1..Smaller(MIN_TECHNICAL_QUESTIONS, 10) |-> Q("general", QKeys[i])]

\* TechQuestionGenerator.generate_questions with num_questions = None
generate_questions(tech_stack, resp, shuffled) ==
  IF tech_stack = << >> THEN _generate_general_questions
  ELSE _generate_tech_specific_questions(
         tech_stack,
         Smaller(Larger(MIN_TECHNICAL_QUESTIONS, Len(tech_stack)),
                 MAX_TECHNICAL_QUESTIONS),
         resp, shuffled)

\* ConversationManager._generate_technical_questions.  The response cache
\* holds no questions when this runs: they are generated once per record and
\* reset_conversation clears the cache.
_generate_technical_questions(data, resp, shuffled) ==
  LET questions ==
        generate_questions(Get(data, "tech_stack", << >>), resp, shuffled)
  IN  [tq |-> questions, data |-> Put(data, "technical_questions", questions)]

(* ------------------------------ handlers ------------------------------- *)
\* What a handler leaves behind: candidate_data, self.stage,
\* self.technical_questions, the reply, and whether it raised instead.
Result(data, st, tq, reply) ==
  [data |-> data, stage |-> st, tq |-> tq, response |-> reply,
   raised |-> FALSE]

Raised(data, st, tq) ==
  [data |-> data, stage |-> st, tq |-> tq, response |-> NoReply,
   raised |-> TRUE]

\* the constructor raises NameError (logger) unless is_available() is true
sentiment_analysis_enabled == TRUE

\* the greeting of the language, from the response cache or computed
_handle_greeting(language) == Fixed("greeting", language)

_handle_name_collection(data, st, tq, message, language, llm) ==
  IF Has(data, "name")
    THEN Result(data, STAGES.contact_info, tq,
                get_multilingual_response(
                  Prompt("transition+candidate_info",
                         "email address and phone number"),
                  language, "name", llm))
  ELSE IF ~message.blank
    THEN Result(data, st, tq,
                get_multilingual_response(Prompt("validation", "name"),
                                          language, "name", llm))
  ELSE Result(data, st, tq,
              get_multilingual_response(Prompt("candidate_info", "full name"),
                                        language, "name", llm))

_handle_contact_collection(data, st, tq, language, llm) ==
  IF Has(data, "email") /\ Has(data, "phone")
    THEN Result(data, STAGES.experience, tq,
                get_multilingual_response(
                  Prompt("candidate_info",
                         "years of experience in the industry"),
                  language, "contact_info", llm))
    ELSE Result(data, st, tq,
                get_multilingual_response(
                  Prompt("candidate_info",
                         IF Has(data, "email") THEN "phone number"
                         ELSE IF Has(data, "phone") THEN "email address"
                         ELSE "email address and phone number"),
                  language, "contact_info", llm))

_handle_experience_collection(data, st, tq, language, llm) ==
  IF Has(data, "years_experience")
    THEN Result(data, STAGES.position, tq,
                get_multilingual_response(
                  Prompt("candidate_info", "desired position or role"),
                  language, "experience", llm))
    ELSE Result(data, st, tq,
                get_multilingual_response(
                  Prompt("candidate_info",
                         "years of experience in the industry"),
                  language, "experience", llm))

_handle_position_collection(data, st, tq, llm) ==
  IF Has(data, "position")
    THEN Result(data, STAGES.location, tq,
                get_response(Prompt("candidate_info", "current location"),
                             "general", llm))
    ELSE Result(data, st, tq,
                get_response(Prompt("candidate_info",
                                    "desired position or role"),
                             "general", llm))

_handle_location_collection(data, st, tq, llm) ==
  IF Has(data, "location")
    THEN Result(data, STAGES.tech_stack, tq,
                get_response(Prompt("tech_stack", "tech stack"),
                             "general", llm))
    ELSE Result(data, st, tq,
                get_response(Prompt("candidate_info", "current location"),
                             "general", llm))

_handle_tech_stack_collection(data, st, tq, message, language, llm, resp, shuffled) ==
  LET opt == _extract_tech_stack(message)
      d1 == IF ~Has(data, "tech_stack") /\ Found(opt)
              THEN Put(data, "tech_stack", Value(opt)) ELSE data
      gen == _generate_technical_questions(d1, resp, shuffled)
  IN  IF Has(d1, "tech_stack") /\ d1["tech_stack"] # << >>
        THEN IF gen.tq # << >>
               THEN Result(Put(gen.data, "technical_answers", << >>),
                           STAGES.technical_questions, gen.tq,
                           Question("first_question", 0))
               ELSE Result(gen.data, STAGES.technical_questions, gen.tq,
                           Fixed("let_me_ask", "en"))
      ELSE IF ~Has(d1, "tech_stack")
        THEN Result(d1, st, tq,
                    get_multilingual_response(
                      Prompt(IF ~message.blank THEN "tech_stack_retry"
                             ELSE "tech_stack", "tech stack"),
                      language, "tech_stack", llm))
      ELSE Result(d1, st, tq, Fixed("let_me_ask", "en"))

\* a handler that generates the questions anew for every answer
RegenerateForEveryAnswer(data, st, tq, t, resp, shuffled) ==
  LET gen == _generate_technical_questions(data, resp, shuffled)
      d1 == IF ~Has(gen.data, "technical_answers")
              THEN Put(gen.data, "technical_answers", << >>) ELSE gen.data
      d2 == Put(d1, "technical_answers", Append(d1["technical_answers"], t))
      current_question_idx == Len(d2["technical_answers"]) - 1
  IN  IF current_question_idx < Len(gen.tq) - 1
        THEN Result(d2, st, gen.tq,
                    Question("next_question", current_question_idx + 1))
        ELSE Result(d2, STAGES.farewell, gen.tq, Fixed("all_answered", "en"))

\* t identifies the user message that is appended to technical_answers
_handle_technical_questions(data, st, tq, t, resp, shuffled) ==
  LET gen == IF tq = << >> /\ ~Has(data, "technical_questions")
               THEN _generate_technical_questions(data, resp, shuffled)
               ELSE [tq |-> tq, data |-> data]
      tq2 == IF gen.tq = << >> /\ Has(gen.data, "technical_questions")
               THEN gen.data["technical_questions"] ELSE gen.tq
      d1 == IF ~Has(gen.data, "technical_answers")
              THEN Put(gen.data, "technical_answers", << >>) ELSE gen.data
      d2 == Put(d1, "technical_answers", Append(d1["technical_answers"], t))
      current_question_idx == Len(d2["technical_answers"]) - 1
  IN  IF current_question_idx < Len(tq2) - 1
        THEN Result(d2, st, tq2,
                    Question("next_question", current_question_idx + 1))
        ELSE Result(d2, STAGES.farewell, tq2, Fixed("all_answered", "en"))

\* The stored analysis holds detailed_analysis, a list of (content, emotion,
\* score) tuples; its other entries are not distinguished.
\* sentiment_ok: the emotion API answered for at least one user message of
\* the history.  If it answered for none, emotion_history stays empty,
\* get_candidate_emotional_state returns no "emotional_shifts" and
\* analyze_interview_progress raises KeyError.
_handle_farewell(data, st, tq, llm, sentiment_ok) ==
  IF sentiment_analysis_enabled /\ Has(data, "sentiment_history")
    THEN IF sentiment_ok
           THEN Result(Put(data, "sentiment_analysis",
                           [feedback |-> "feedback",
                            detailed_analysis |-> "tuples"]), st, tq,
                       get_response(Prompt("farewell", ""), "general", llm))
           ELSE Raised(data, st, tq)
    ELSE Result(data, st, tq,
                get_response(Prompt("farewell", ""), "general", llm))

\* Sensitivity variant: the error of a handler leaves the turn without reply.
NoReplyOnError(llm) == NoReply

\* handle_translation_failure with fallback_language "en"
_handle_language_error(llm) ==
  get_response(Prompt("apology", ""), "general", llm)

\* handled: the stage chosen at the start of _generate_response
_generate_response(data, tq, message, t, language, llm, resp, shuffled, sentiment_ok) ==
  LET st == _determine_current_stage(data)
      r == IF st = STAGES.greeting
             THEN Result(data, STAGES.name, tq, _handle_greeting(language))
           ELSE IF st = STAGES.name
             THEN _handle_name_collection(data, st, tq, message, language, llm)
           ELSE IF st = STAGES.contact_info
             THEN _handle_contact_collection(data, st, tq, language, llm)
           ELSE IF st = STAGES.experience
             THEN _handle_experience_collection(data, st, tq, language, llm)
           ELSE IF st = STAGES.position
             THEN _handle_position_collection(data, st, tq, llm)
           ELSE IF st = STAGES.location
             THEN _handle_location_collection(data, st, tq, llm)
           ELSE IF st = STAGES.tech_stack
             THEN _handle_tech_stack_collection(data, st, tq, message,
                                                language, llm, resp, shuffled)
           ELSE IF st = STAGES.technical_questions
             THEN _handle_technical_questions(data, st, tq, t, resp, shuffled)
           ELSE IF st = STAGES.farewell
             THEN LET f == _handle_farewell(data, st, tq, llm, sentiment_ok)
                  IN  IF f.raised THEN f
                      ELSE [f EXCEPT
                              !.data = Put(f.data, "conversation_complete",
                                           TRUE),
                              !.stage = STAGES.complete]
           ELSE Result(data, st, tq, _get_completion_message(language))
  IN  [data |-> r.data, stage |-> r.stage, tq |-> r.tq,
       response |-> IF r.raised THEN _handle_language_error(llm)
                    ELSE r.response,
       raised |-> r.raised, handled |-> st]

(* -------------------------------- state -------------------------------- *)
VARIABLES
  candidate_data,        \* self.candidate_data
  stage,                 \* self.stage
  history,               \* self.history
  technical_questions,   \* self.technical_questions
  current_language,      \* self.current_language
  disk,                  \* the session file: << >> if absent, else <<content>>
  io,                    \* what the file system does with the session file
  faults,                \* writes of the session file that failed
  turn,                  \* number of the last message since the last reset
  response,              \* the reply returned by the last process_message
  last,                  \* the last call: op, the stage that handled it,
                         \* whether its handler raised, what was found in
                         \* its message, what it stored on the way
  router,                \* the LLMRouter call in progress
  extraction,            \* the extraction tried last on a single message,
                         \* or the arguments and result of generate_questions
  other                  \* a second manager of the same session id, idle

vars ==
  <<candidate_data, stage, history, technical_questions, current_language,
    disk, io, faults, turn, response, last, router, extraction, other>>

NotHandled == -1

Call(op, handled, raised) ==
  [op |-> op, handled |-> handled, raised |-> raised,
   lang |-> "", conf |-> 0, found |-> {}, stored |-> << >>]

\* what each extractor finds in a message
Extractors(message, language) ==
  [name |-> _extract_name(message, language),
   email |-> _extract_email(message),
   phone |-> _extract_phone(message),
   years_experience |-> _extract_experience(message),
   position |-> _extract_position(message),
   location |-> _extract_location(message),
   tech_stack |-> _extract_tech_stack(message)]

\* the call record of a process_message: the language detected in the
\* message with its confidence, and the fields of the stage with index st for
\* which the message holds a value
Heard(call, message, st, language) ==
  [call EXCEPT !.lang = message.lang, !.conf = message.conf,
               !.found = {f \in StageFields(st) :
                            Found(Extractors(message, language)[f])}]

\* DataHandler.save_candidate_data: stamps the dict it is given, then writes
save_candidate_data(data) == Put(data, "timestamp", "saved")

\* json.dump: tuples are written as arrays, every other value of the record
\* (str, int, float, bool, list, dict with str keys) has its own JSON form
json_dump(data) ==
  [k \in DOMAIN data |->
     IF k = "sentiment_analysis"
       THEN [data[k] EXCEPT !.detailed_analysis = "lists"]
       ELSE data[k]]

\* json.load: arrays are read as lists
json_load(content) == content

\* the content left by a json.dump that failed after open(path, 'w')
Truncated == [truncated |-> "yes"]

\* conditions of the file system
IOConditions == {"ok", "open_fails", "dump_fails", "unreadable"}

\* DataHandler.load_candidate_data: None is << >>
load_candidate_data(file) ==
  IF file = << >> \/ io = "unreadable" THEN << >>
  ELSE IF Has(file[1], "truncated") THEN << >>
  ELSE <<json_load(file[1])>>

\* `load_candidate_data(session_id) or {}`
LoadedRecord(file) ==
  LET loaded == load_candidate_data(file)
  IN  IF Found(loaded) THEN Value(loaded) ELSE EmptyDict

\* the file after the try block of save_candidate_data.  The write of
\* store_technical_questions earlier in the same call meets the same
\* condition and is overwritten, skipped or truncated with this one.
WriteFile(file, data) ==
  IF io = "ok" THEN <<json_dump(data)>>
  ELSE IF io = "dump_fails" THEN <<Truncated>>
  ELSE file

\* Sensitivity variant: a save that keeps the keys that only the file has.
MergeIntoFile(data) ==
  /\ (io # "ok" => faults < MaxFaults)
  /\ disk' = WriteFile(disk, data @@ LoadedRecord(disk))
  /\ faults' = IF io = "ok" THEN faults ELSE faults + 1

\* _save_session: the write of the stamped record
_save_session(data) ==
  /\ (io # "ok" => faults < MaxFaults)
  /\ disk' = WriteFile(disk, data)
  /\ faults' = IF io = "ok" THEN faults ELSE faults + 1

\* DataHandler.store_technical_questions: the file it writes, the questions
\* put into the record that it loads from the file
store_technical_questions(file, questions) ==
  json_dump(save_candidate_data(
              Put(LoadedRecord(file), "technical_questions", questions)))

\* What process_message hands to store_technical_questions: nothing unless
\* the handler generated the questions.  file is what the call writes,
\* memory is candidate_data at that moment (technical_answers are touched
\* only afterwards).
Stored(before, after) ==
  IF Has(before, "technical_questions") \/ ~Has(after, "technical_questions")
       \/ io # "ok"
    THEN << >>
  ELSE <<[file |-> store_technical_questions(disk,
                                             after["technical_questions"]),
          memory |-> [k \in DOMAIN after \ ({"technical_answers"}
                                              \ DOMAIN before) |->
                        IF k = "technical_answers" THEN before[k]
                        ELSE after[k]]]>>

\* A router with no call in progress.
\*   pc          position in get_response: idle, groq, openrouter, return, done
\*   model       index of the next model of the fallback loop
\*   calls       the providers called so far, in order
\*   by          position in calls of the call that returned content, 0 if none
\*   tech_stack  argument of generate_technical_questions, << >> for a plain
\*               get_response
\*   text        the provider response that generate_technical_questions parsed
NoCall ==
  [pc |-> "idle", use_case |-> "", groq_client |-> FALSE,
   openrouter_client |-> FALSE, model |-> 1, calls |-> << >>, by |-> 0,
   raised |-> FALSE, result |-> NoReply, tech_stack |-> << >>,
   questions |-> << >>, text |-> Apology]

\* no extraction tried yet
NoExtraction == [stage |-> "", message |-> Quiet, data |-> EmptyDict]

\* ConversationManager() for a session id that has no file
Init ==
  /\ candidate_data = EmptyDict
  /\ stage = _determine_current_stage(EmptyDict)
  /\ history = << >>
  /\ technical_questions = << >>
  /\ current_language = "en"
  /\ disk = << >>
  /\ io = "ok"
  /\ faults = 0
  /\ turn = 0
  /\ response = NoReply
  /\ last = Call("init", NotHandled, FALSE)
  /\ router = NoCall
  /\ extraction = NoExtraction
  /\ other = << >>

\* Sensitivity variant: an exit that records the message as an answer.
ExitRecordingAnswer ==
  /\ candidate_data' =
       save_candidate_data(
         Put(Put(candidate_data, "conversation_complete", TRUE),
             "technical_answers",
             Append(Get(candidate_data, "technical_answers", << >>), turn)))
  /\ stage' = STAGES.complete
  /\ _save_session(candidate_data')
  /\ response' = Fixed("exit", "en")
  /\ UNCHANGED <<history, technical_questions, current_language, turn, io,
                 router, extraction, other>>

_handle_exit ==
  /\ candidate_data' =
       save_candidate_data(Put(candidate_data, "conversation_complete", TRUE))
  /\ stage' = STAGES.complete
  /\ _save_session(candidate_data')
  /\ response' = Fixed("exit", "en")
  /\ UNCHANGED <<history, technical_questions, current_language, turn, io,
                 router, extraction, other>>

\* the technologies process_message can find in candidate_data in this call
StackInReach(message) ==
  IF Has(candidate_data, "tech_stack") THEN candidate_data["tech_stack"]
  ELSE message.tech

process_message(message, llm, resp, shuffled, sentiment_ok) ==
  IF message.exit
    THEN /\ _handle_exit
         /\ last' = Heard(Call("exit", NotHandled, FALSE), message,
                          STAGES.complete, current_language)
  ELSE
    /\ turn < MaxTurns
    /\ LET t == turn + 1
           sw == auto_switch_language(message, current_language)
           language == sw.lang
           d1 == IF sw.switched THEN Put(candidate_data, "language", sw.lang)
                 ELSE IF sw.notice
                   THEN Put(candidate_data, "language_suggestion",
                            [suggested_language |-> sw.lang])
                 ELSE candidate_data
           h1 == IF sw.switched
                   THEN preserve_context_across_languages(history, t)
                   ELSE history
           h2 == _update_history(h1, "user", t)
           d2 == Put(d1, "conversation_history", h2)
           d3 == _extract_multilingual_info(d2, stage, message, language)
           \* emotion and score of the entry are not distinguished
           d4 == IF sentiment_analysis_enabled
                   THEN Put(d3, "sentiment_history",
                            Append(Get(d3, "sentiment_history", << >>),
                                   [message |-> t, language |-> language]))
                   ELSE d3
           h3 == _update_history(h2, "assistant", t)
       IN  \E r \in {_generate_response(d4, technical_questions, message, t,
                                        language, llm, resp, shuffled,
                                        sentiment_ok)} :
             /\ candidate_data' =
                  save_candidate_data(Put(r.data, "conversation_history", h3))
             /\ stage' = r.stage
             /\ history' = h3
             /\ technical_questions' = r.tq
             /\ current_language' = language
             /\ _save_session(candidate_data')
             /\ turn' = t
             /\ response' = [r.response EXCEPT !.notice = sw.switched]
             /\ last' = [Heard(Call("message", r.handled, r.raised),
                               message, stage, language)
                           EXCEPT !.stored = Stored(d4, r.data)]
             /\ UNCHANGED <<io, router, extraction, other>>

\* a reset that leaves the file as it is
ResetWithoutSaving ==
  /\ candidate_data' = save_candidate_data(EmptyDict)
  /\ history' = << >>
  /\ stage' = STAGES.greeting
  /\ technical_questions' = << >>
  /\ current_language' = "en"
  /\ UNCHANGED <<disk, faults>>
  /\ turn' = 0
  /\ response' = NoReply
  /\ last' = Call("reset", NotHandled, FALSE)
  /\ UNCHANGED <<io, router, extraction, other>>

reset_conversation ==
  /\ candidate_data' = save_candidate_data(EmptyDict)
  /\ history' = << >>
  /\ stage' = STAGES.greeting
  /\ technical_questions' = << >>
  /\ current_language' = "en"
  /\ _save_session(candidate_data')
  /\ turn' = 0
  /\ response' = NoReply
  /\ last' = Call("reset", NotHandled, FALSE)
  /\ UNCHANGED <<io, router, extraction, other>>

\* _generate_technical_questions runs only when no questions are stored,
\* every field up to position is present and a technology is known.
GenerationInReach(message) ==
  /\ ~Has(candidate_data, "technical_questions")
  /\ ~Get(candidate_data, "conversation_complete", FALSE)
  /\ {"name", "email", "phone", "years_experience", "position"}
       \subseteq DOMAIN candidate_data
  /\ StackInReach(message) # << >>

\* what the provider chain can return when it is asked for questions
ProviderOutcomes(message) ==
  IF GenerationInReach(message) THEN ProviderResponses
  ELSE {[json |-> 0, bad |-> FALSE, lines |-> 1]}

\* what random.shuffle can leave when the template questions are built
ShuffleOutcomes(message) ==
  IF GenerationInReach(message) THEN Shuffles(StackInReach(message))
  ELSE {StackInReach(message)}

\* The emotion API is asked again for the whole history only by
\* _handle_farewell, which runs when every question has its answer.
SentimentOutcomes ==
  IF _determine_current_stage(candidate_data) = STAGES.farewell
    THEN BOOLEAN ELSE {TRUE}

ProcessMessage(M) ==
  \E message \in M, llm \in BOOLEAN, sentiment_ok \in SentimentOutcomes :
    \E resp \in ProviderOutcomes(message),
       shuffled \in ShuffleOutcomes(message) :
      process_message(message, llm, resp, shuffled, sentiment_ok)

Next ==
  \/ ProcessMessage(Messages)
  \/ reset_conversation

Spec == Init /\ [][Next]_vars

NextLanguage ==
  \/ ProcessMessage(LanguageMessages)
  \/ reset_conversation

SpecLanguage == Init /\ [][NextLanguage]_vars

(* ------------------------------ progress ------------------------------- *)
\* The messages of a candidate who answers what the session is waiting for:
\* no exit keyword, not blank, and in a field-collection stage a value for a
\* field of the stage that is still missing.
Cooperative ==
  {message \in Messages :
     /\ ~message.exit /\ ~message.blank
     /\ LET missing == StageFields(stage) \ DOMAIN candidate_data
        IN  missing # {} =>
              \E f \in missing :
                Found(Extractors(message, current_language)[f])}

NextProgress == ProcessMessage(Cooperative)

\* a further message has been processed (every step of NextProgress is one)
Answered == turn < MaxTurns /\ turn' = turn + 1

\* the candidate keeps answering: a further message is always sent
SpecProgress == Init /\ [][NextProgress]_vars /\ WF_turn(Answered)

(* ------------------------------- storage ------------------------------- *)
\* the messages of a plain English interview
StorageMessages ==
  {Unclear, ShortName, Contact, FiveYears, Role, CityAndSkill, Bye}

\* the number of the last message of a history
LastTurn(hist) == IF hist = << >> THEN 0 ELSE hist[Len(hist)].turn

\* process_message of a manager whose router has no provider that answers
ProcessMessageUnaided(M) ==
  \E message \in M, sentiment_ok \in SentimentOutcomes :
    \E shuffled \in ShuffleOutcomes(message) :
      process_message(message, FALSE, Apology, shuffled, sentiment_ok)

\* ConversationManager.__init__ for the id of a session that has a file: a
\* new manager takes the place of the one in memory
__init__ ==
  /\ \E data \in {LoadedRecord(disk)} :
       /\ candidate_data' = data
       /\ stage' = _determine_current_stage(data)
       /\ history' = Get(data, "conversation_history", << >>)
       /\ technical_questions' = Get(data, "technical_questions", << >>)
       /\ current_language' = Get(data, "language", "en")
  /\ turn' = LastTurn(history')
  /\ response' = NoReply
  /\ last' = Call("init", NotHandled, FALSE)
  /\ UNCHANGED <<disk, io, faults, router, extraction, other>>

\* the file system changes its condition
FileSystem(condition) ==
  /\ io # condition
  /\ io' = condition
  /\ UNCHANGED <<candidate_data, stage, history, technical_questions,
                 current_language, disk, faults, turn, response, last,
                 router, extraction, other>>

NextStorage ==
  \/ ProcessMessageUnaided(StorageMessages)
  \/ reset_conversation
  \/ __init__
  \/ \E condition \in IOConditions : FileSystem(condition)

SpecStorage == Init /\ [][NextStorage]_vars

(* ------------------------------- router -------------------------------- *)
OPENROUTER_MODELS_2025 ==
  <<"google/gemma-2-9b-it:free", "mistralai/mistral-7b-instruct:free",
    "google/gemma-7b-it:free", "huggingface/zephyr-7b-beta:free",
    "meta-llama/llama-3-8b-instruct:free", "openchat/openchat-7b:free">>

\* what chat.completions.create does: returns content, returns empty or no
\* content, raises, or runs into the request timeout (which raises)
Outcomes == {"content", "empty", "exception", "timeout"}

\* use_case arguments: the keys of fallback_responses and one that is none
UseCases == FallbackKeys \cup {"tech_questions"}

\* tech_stack arguments of generate_technical_questions
Stacks ==
  {<<"Python">>, <<"Python", "Django">>, <<"Python", "Django", "React">>,
   <<"Python", "Django", "React", "AWS">>}

Conversation ==
  <<candidate_data, stage, history, technical_questions, current_language,
    disk, io, faults, turn, response, last, extraction, other>>

Idle == router.pc \in {"idle", "done"}

\* LLMRouter.__init__: a client for each key that is set (and, for
\* OpenRouter, whose construction does not raise)
LLMRouter(groq_key, openrouter_key) ==
  /\ Idle
  /\ router' = [NoCall EXCEPT !.groq_client = groq_key,
                              !.openrouter_client = openrouter_key]
  /\ UNCHANGED Conversation

\* entry of get_response
CallGetResponse(use_case) ==
  /\ Idle
  /\ router' = [NoCall EXCEPT !.groq_client = router.groq_client,
                              !.openrouter_client = router.openrouter_client,
                              !.pc = "groq", !.use_case = use_case]
  /\ UNCHANGED Conversation

\* entry of generate_technical_questions, up to its get_response
CallGenerateTechnicalQuestions(tech_stack) ==
  /\ Idle
  /\ router' = [NoCall EXCEPT !.groq_client = router.groq_client,
                              !.openrouter_client = router.openrouter_client,
                              !.pc = "groq", !.use_case = "tech_questions",
                              !.tech_stack = tech_stack]
  /\ UNCHANGED Conversation

\* _call_groq, the call of the primary provider: None without a client,
\* None when the request raises, else the content of the first choice
_call_groq(outcome) ==
  /\ router.pc = "groq"
  /\ LET got == router.groq_client /\ outcome = "content"
     IN  router' = [router EXCEPT
                     !.calls = Append(@, "groq"),
                     !.by = IF got THEN Len(router.calls) + 1 ELSE 0,
                     !.pc = IF got THEN "return" ELSE "openrouter"]
  /\ UNCHANGED Conversation

\* a fallback loop that goes on after a model returned content
CallEveryFallbackModel(outcome) ==
  /\ router.pc = "openrouter"
  /\ IF ~router.openrouter_client
        \/ router.model > Len(OPENROUTER_MODELS_2025)
       THEN router' = [router EXCEPT !.pc = "return"]
       ELSE router' = [router EXCEPT
                        !.calls = Append(@, OPENROUTER_MODELS_2025[router.model]),
                        !.by = IF outcome = "content" /\ @ = 0
                                 THEN Len(router.calls) + 1 ELSE @,
                        !.model = @ + 1]
  /\ UNCHANGED Conversation

\* one pass of the loop of _call_openrouter_fallback, or its return of None
\* (no client, or the list is exhausted)
_call_openrouter_fallback(outcome) ==
  /\ router.pc = "openrouter"
  /\ IF ~router.openrouter_client
        \/ router.model > Len(OPENROUTER_MODELS_2025)
       THEN router' = [router EXCEPT !.pc = "return"]
       ELSE LET got == outcome = "content"
            IN  router' = [router EXCEPT
                            !.calls = Append(@, OPENROUTER_MODELS_2025[router.model]),
                            !.by = IF got THEN Len(router.calls) + 1 ELSE 0,
                            !.model = IF got THEN @ ELSE @ + 1,
                            !.pc = IF got THEN "return" ELSE "openrouter"]
  /\ UNCHANGED Conversation

\* the texts a call can return to generate_technical_questions
ResponsesInReach ==
  IF router.by # 0 /\ router.tech_stack # << >>
    THEN ProviderResponses ELSE {Apology}

\* the return of get_response and, in generate_technical_questions, the
\* parsing of the returned text
ReturnResponse(resp) ==
  /\ router.pc = "return"
  /\ router' = [router EXCEPT
                  !.pc = "done",
                  !.result = get_response(Prompt("prompt", ""),
                                          router.use_case, router.by # 0),
                  !.questions =
                     IF router.tech_stack = << >> THEN << >>
                     ELSE generate_technical_questions(router.tech_stack, resp),
                  !.text = resp]
  /\ UNCHANGED Conversation

NextRouter ==
  \/ \E groq_key \in BOOLEAN, openrouter_key \in BOOLEAN :
        LLMRouter(groq_key, openrouter_key)
  \/ \E use_case \in UseCases : CallGetResponse(use_case)
  \/ \E tech_stack \in Stacks : CallGenerateTechnicalQuestions(tech_stack)
  \/ \E outcome \in Outcomes : _call_groq(outcome)
  \/ \E outcome \in Outcomes : _call_openrouter_fallback(outcome)
  \/ \E resp \in ResponsesInReach : ReturnResponse(resp)

SpecRouter == Init /\ [][NextRouter]_vars

(* ----------------------------- extraction ------------------------------ *)
\* messages that hold one run of digits, with or without a leading '+'
PhoneMessages ==
  {[Quiet EXCEPT !.phone = PhoneText(plus, digits, "run")] :
     plus \in BOOLEAN, digits \in 1..MaxDigits}

\* messages "<number> years", the number written with one decimal or none
\* and with or without a minus sign
ExperienceMessages ==
  {[Quiet EXCEPT !.tenths = tenths, !.negative = negative] :
     tenths \in 0..MaxTenths, negative \in BOOLEAN}

\* messages that mention up to MaxMentions different words of the
\* vocabulary or abbreviations, in any order
TechMessages ==
  LET words == {"Python", "React", "AWS", "py", "js"}
  IN  {[Quiet EXCEPT !.tech = mentions] :
         mentions \in {m \in UNION {[1..n -> words] : n \in 1..MaxMentions} :
                         \A i, j \in 1..Len(m) : i # j => m[i] # m[j]}}

\* the record of a candidate who has answered every stage before stage s
Collected(s) ==
  LET before == {StageOrder[i] : i \in {j \in 1..Len(StageOrder) :
                                          STAGES[StageOrder[j]] < STAGES[s]}}
  IN  [k \in UNION {REQUIRED_FIELDS[x] : x \in before} |-> "collected"]

\* _extract_multilingual_info on one message received in stage s
ExtractInStage(s, message) ==
  /\ extraction' =
       [stage |-> s, message |-> message,
        data |-> _extract_multilingual_info(Collected(s), STAGES[s],
                                            message, "en")]
  /\ UNCHANGED <<candidate_data, stage, history, technical_questions,
                 current_language, disk, io, faults, turn, response, last,
                 router, other>>

NextExtract ==
  \/ \E message \in PhoneMessages : ExtractInStage("contact_info", message)
  \/ \E message \in ExperienceMessages :
        ExtractInStage("experience", message)
  \/ \E message \in TechMessages : ExtractInStage("tech_stack", message)

SpecExtract == Init /\ [][NextExtract]_vars

(* --------------------------- language switch ---------------------------- *)
\* the language codes the callers pass here; "xx" stands for a code that is
\* not in SUPPORTED_LANGUAGES
switch_conversation_language(new_language) ==
  IF new_language \notin LocalizedLanguages
    THEN /\ last' = Call("switch", NotHandled, FALSE)
         /\ UNCHANGED <<candidate_data, stage, history, technical_questions,
                        current_language, disk, io, faults, turn, response,
                        router, extraction, other>>
  ELSE
    /\ current_language' = new_language
    /\ history' = preserve_context_across_languages(history, turn)
    /\ candidate_data' =
         save_candidate_data(
           Put(Put(Put(candidate_data, "language", new_language),
                   "conversation_history", history'),
               "language_switches",
               Append(Get(candidate_data, "language_switches", << >>),
                      [from_language |-> current_language,
                       to_language |-> new_language, stage |-> stage])))
    /\ _save_session(candidate_data')
    /\ last' = Call("switch", NotHandled, FALSE)
    /\ UNCHANGED <<stage, technical_questions, turn, response, io, router,
                   extraction, other>>

NextHistory ==
  \/ ProcessMessageUnaided({Unclear, SpanishIntroduction})
  \/ \E new_language \in {"en", "es", "xx"} :
       /\ Len(Get(candidate_data, "language_switches", << >>)) < MaxSwitches
       /\ switch_conversation_language(new_language)

SpecHistory == Init /\ [][NextHistory]_vars

(* -------------------------- question generator -------------------------- *)
\* The arguments of one call of TechQuestionGenerator.generate_questions with
\* num_questions left as None: a tech_stack of 1 to MaxStack technologies,
\* what the provider chain returns and the order random.shuffle leaves.
InitQuestions ==
  /\ candidate_data = EmptyDict
  /\ stage = _determine_current_stage(EmptyDict)
  /\ history = << >>
  /\ technical_questions = << >>
  /\ current_language = "en"
  /\ disk = << >>
  /\ io = "ok"
  /\ faults = 0
  /\ turn = 0
  /\ response = NoReply
  /\ last = Call("init", NotHandled, FALSE)
  /\ router = NoCall
  /\ other = << >>
  /\ \E n \in 1..MaxStack :
       \E shuffled \in Shuffles(SubSeq(all_technologies, 1, n)) :
         \E resp \in ProviderResponses :
           extraction =
             [stage |-> "arguments", message |-> Quiet,
              data |-> [tech_stack |-> SubSeq(all_technologies, 1, n),
                        resp |-> resp, shuffled |-> shuffled]]

\* the call returns its list of questions
GenerateQuestions ==
  /\ extraction.stage = "arguments"
  /\ extraction' =
       [extraction EXCEPT
          !.stage = "questions",
          !.data = Put(@, "questions",
                       generate_questions(@["tech_stack"], @["resp"],
                                          @["shuffled"]))]
  /\ UNCHANGED <<candidate_data, stage, history, technical_questions,
                 current_language, disk, io, faults, turn, response, last,
                 router, other>>

SpecQuestions == InitQuestions /\ [][GenerateQuestions]_vars

(* --------------------------- shared session ---------------------------- *)
\* the messages of an interview up to the technical questions
SharedMessages == {ShortName, Contact, FiveYears, Role, CityAndSkill, Bye}

\* the attributes of the manager whose methods are called
Manager ==
  [candidate_data |-> candidate_data, stage |-> stage, history |-> history,
   technical_questions |-> technical_questions,
   current_language |-> current_language, turn |-> turn]

\* ConversationManager.__init__ for the id of the session in progress: a
\* second manager is built from the file and waits for its turn
Join ==
  /\ other = << >>
  /\ \E data \in {LoadedRecord(disk)} :
       other' =
         <<[candidate_data |-> data,
            stage |-> _determine_current_stage(data),
            history |-> Get(data, "conversation_history", << >>),
            technical_questions |-> Get(data, "technical_questions", << >>),
            current_language |-> Get(data, "language", "en"),
            turn |-> LastTurn(Get(data, "conversation_history", << >>))]>>
  /\ last' = Call("init", NotHandled, FALSE)
  /\ UNCHANGED <<candidate_data, stage, history, technical_questions,
                 current_language, disk, io, faults, turn, response, router,
                 extraction>>

\* the next call goes to the manager that was waiting
TakeTurn ==
  /\ other # << >>
  /\ candidate_data' = other[1].candidate_data
  /\ stage' = other[1].stage
  /\ history' = other[1].history
  /\ technical_questions' = other[1].technical_questions
  /\ current_language' = other[1].current_language
  /\ turn' = other[1].turn
  /\ other' = <<Manager>>
  /\ response' = NoReply
  /\ last' = Call("turn", NotHandled, FALSE)
  /\ UNCHANGED <<disk, io, faults, router, extraction>>

NextShared ==
  \/ turn < MaxSharedTurns /\ ProcessMessageUnaided(SharedMessages)
  \/ Join
  \/ TakeTurn

SpecShared == Init /\ [][NextShared]_vars

(* ------------------------------- claims -------------------------------- *)
CandidateFields ==
  {"name", "email", "phone", "years_experience", "position", "location",
   "tech_stack"}

Answers == Get(candidate_data, "technical_answers", << >>)

Questions == Get(candidate_data, "technical_questions", << >>)

Complete == Get(candidate_data, "conversation_complete", FALSE)

\* the fields present in both records have the same value and no field of
\* keys is present in only one of them
SameOn(keys, before, after) ==
  \A k \in keys :
    /\ Has(before, k) <=> Has(after, k)
    /\ Has(before, k) => before[k] = after[k]

\* C1: after a message without exit keyword on a session that is not
\* complete, the stage that handled the message and the stage computed from
\* the record are the first of name, contact_info, experience, position,
\* location, tech_stack whose required fields are not all present; with all
\* of them present the session is in the question or the farewell stage.
C1_FirstUnsatisfiedStage ==
  (last.op = "message" /\ ~Complete) =>
    LET has(f) == Has(candidate_data, f)
        computed == _determine_current_stage(candidate_data)
        contact == has("email") /\ has("phone")
        at(s) == computed = s /\ last.handled = s
    IN  /\ ~has("name") => at(STAGES.name)
        /\ has("name") /\ ~contact => at(STAGES.contact_info)
        /\ has("name") /\ contact /\ ~has("years_experience")
             => at(STAGES.experience)
        /\ has("name") /\ contact /\ has("years_experience")
           /\ ~has("position") => at(STAGES.position)
        /\ has("name") /\ contact /\ has("years_experience")
           /\ has("position") /\ ~has("location") => at(STAGES.location)
        /\ has("name") /\ contact /\ has("years_experience")
           /\ has("position") /\ has("location") /\ ~has("tech_stack")
             => at(STAGES.tech_stack)
        /\ CandidateFields \subseteq DOMAIN candidate_data
             => /\ computed \in {STAGES.technical_questions, STAGES.farewell}
                /\ last.handled \in {STAGES.tech_stack,
                                     STAGES.technical_questions,
                                     STAGES.farewell}

\* a message was handled in the location stage with a later field missing
C1_Witness ==
  /\ last.op = "message" /\ ~Complete
  /\ last.handled = STAGES.location
  /\ Has(candidate_data, "position") /\ ~Has(candidate_data, "location")
  /\ turn >= 7

\* C2: in every state reached by process_message (exit included) and
\* reset_conversation there are at most as many answers as questions.
C2_AnswersWithinQuestions == Len(Answers) <= Len(Questions)

\* every question of a list of three has its answer
C2_Witness == Len(Answers) = Len(Questions) /\ Len(Answers) = 3

\* C3: a message without exit keyword moves the session from the question
\* stage to the farewell stage only when every question has its answer and
\* there are at least MIN_TECHNICAL_QUESTIONS questions.
C3_LeavesWithAllAnswered ==
  (last.op = "message" /\ last.handled = STAGES.technical_questions
   /\ stage = STAGES.farewell) =>
    /\ Len(Answers) = Len(Questions)
    /\ Len(Questions) >= MIN_TECHNICAL_QUESTIONS

\* C4: an answer is recorded only for the question served by the previous
\* reply: the answer with index i is the message of the turn that follows
\* the reply showing question i.
C4_AnswerFollowsItsQuestion ==
  [][Len(Answers') > Len(Answers) =>
       /\ response.kind \in {"first_question", "next_question"}
       /\ response.idx = Len(Answers)
       /\ Answers' = Append(Answers, turn')]_vars

\* C5: a message with an exit keyword returns the conclusion message, sets
\* conversation_complete and the complete stage, and extracts nothing: the
\* candidate fields, the questions and the answers stay as they were.
C5_ExitConcludes ==
  [][last'.op = "exit" =>
       /\ response' = Fixed("exit", "en")
       /\ Complete'
       /\ stage' = STAGES.complete
       /\ SameOn(CandidateFields \cup {"technical_questions",
                                       "technical_answers"},
                 candidate_data, candidate_data')
       /\ technical_questions' = technical_questions]_vars

\* an exit in the middle of the technical questions
C5_Witness ==
  /\ last.op = "exit"
  /\ Answers # << >> /\ Len(Answers) < Len(Questions)

\* C6: the first message of a session without a stored record is handled in
\* the greeting stage: the reply is the greeting, no field is extracted and
\* the stage after the turn is name.
C6_FirstMessageGreeted ==
  [][(disk = << >> /\ last'.op = "message") =>
       /\ last'.handled = STAGES.greeting
       /\ response'.kind = "greeting"
       /\ CandidateFields \cap DOMAIN candidate_data' = {}
       /\ stage' = STAGES.name]_vars

\* C7: a candidate field that is present keeps its value through every
\* process_message; only reset_conversation removes it.
C7_FieldsKeepTheirValue ==
  [][last'.op # "reset" =>
       \A f \in CandidateFields :
         Has(candidate_data, f) =>
           /\ Has(candidate_data', f)
           /\ candidate_data'[f] = candidate_data[f]]_vars

\* the message carrying an address and a phone number arrived after another
\* address had been stored
C7_Witness ==
  /\ Has(candidate_data, "email") /\ candidate_data["email"] = "jane@corp.org"
  /\ Has(candidate_data, "phone")
  /\ candidate_data["phone"] = PhoneText(TRUE, 11, "dashed")

\* C8 as stated: once the session is complete, every further
\* process_message, whatever its text, returns the completion message of the
\* active language.
C8_AlwaysCompletionMessage ==
  [][(Complete /\ last'.op \in {"message", "exit"}) =>
       response' = _get_completion_message(current_language')]_vars

\* C8: once the session is complete, a message with an exit keyword returns
\* the conclusion message; every other message returns the completion
\* message of the language that is active after the language detection of
\* that turn, behind the switch notice exactly when that turn switched the
\* language.
C8_CompletionMessageUnlessExit ==
  [][Complete =>
       /\ last'.op = "exit" => response' = Fixed("exit", "en")
       /\ last'.op = "message" =>
            /\ last'.handled = STAGES.complete
            /\ response' =
                 [Fixed("completion", current_language') EXCEPT
                    !.notice = (current_language' # current_language)]]_vars

\* a message to a complete session switched the language
C8_Witness ==
  /\ last.op = "message" /\ last.handled = STAGES.complete
  /\ response.kind = "completion" /\ response.lang = "es" /\ response.notice

\* C9 as stated: once the session is complete, process_message changes
\* nothing but conversation_history and timestamp: the fields, the
\* questions, the answers, language, language_suggestion and
\* sentiment_history are unchanged.
C9_NothingButHistoryChanges ==
  [][(Complete /\ last'.op = "message") =>
       SameOn(CandidateFields \cup
                {"technical_questions", "technical_answers", "language",
                 "language_suggestion", "sentiment_history"},
              candidate_data, candidate_data')]_vars

\* C9: once the session is complete, process_message leaves the candidate
\* fields, the questions, the answers, conversation_complete and the stage
\* unchanged; it still appends to sentiment_history and can set language and
\* language_suggestion.
C9_RecordFrozenWhenComplete ==
  [][(Complete /\ last'.op = "message") =>
       /\ SameOn(CandidateFields \cup
                   {"technical_questions", "technical_answers",
                    "conversation_complete", "sentiment_analysis"},
                 candidate_data, candidate_data')
       /\ technical_questions' = technical_questions
       /\ Len(candidate_data'["sentiment_history"]) =
            Len(Get(candidate_data, "sentiment_history", << >>)) + 1]_vars

\* a complete session without contact data was sent the contact message,
\* and a language suggestion was stored
C9_Witness ==
  /\ last.op = "message" /\ last.handled = STAGES.complete
  /\ Has(candidate_data, "name") /\ ~Has(candidate_data, "email")
  /\ Has(candidate_data, "language_suggestion")
  /\ turn >= 4

\* C10: when every question has its answer, the next message without exit
\* keyword is handled in the farewell stage and sets conversation_complete,
\* so that the message after it is handled in the complete stage.
C10_FarewellCompletes ==
  [][(_determine_current_stage(candidate_data) = STAGES.farewell
      /\ last'.op = "message") =>
       /\ last'.handled = STAGES.farewell
       /\ Complete'
       /\ stage' = STAGES.complete]_vars


\* calls of the router that have returned
Returned == router.pc = "done"

\* C11: get_response returns a string whatever the providers do (no
\* client, exception, timeout, empty content), and when none of them gave
\* content the string is the canned text of the use_case it was given
C11_CannedWhenAllFail ==
  Returned =>
    /\ ~router.raised
    /\ router.result.kind \in {"llm", "canned"}
    /\ (router.by = 0 =>
          /\ router.result.kind = "canned"
          /\ (router.use_case \in FallbackKeys =>
                router.result.use_case = router.use_case))

\* a greeting call in which the primary and all six models were called
\* and failed
C11_Witness ==
  /\ Returned
  /\ router.use_case = "greeting"
  /\ router.by = 0
  /\ Len(router.calls) = 1 + Len(OPENROUTER_MODELS_2025)
  /\ router.result.use_case = "greeting"

C13_AtLeastMinQuestions ==
  (Returned /\ router.tech_stack # << >>) =>
    Len(router.questions) >= MIN_TECHNICAL_QUESTIONS

\* the step is a call of one of ops: the file system keeps its condition
\* and last becomes the record of such a call
Called(ops) == io' = io /\ last'.op \in ops

\* the record a manager built now for the same id would start from
Persisted == LoadedRecord(disk)

\* C14: after every process_message and reset_conversation whose write
\* succeeded, a manager built from the file is in the stage of the manager
\* in memory
C14_RestartKeepsStage ==
  [][(Called({"message", "exit", "reset"}) /\ io = "ok") =>
       _determine_current_stage(Persisted') = stage']_vars

\* C15: when process_message returns and the write succeeded, the record
\* read back from the file equals the record in memory
C15_StoredEqualsMemory ==
  [][(Called({"message", "exit"}) /\ io = "ok") =>
       Persisted' = candidate_data']_vars

\* the fields the claim names
ResetFields ==
  {"name", "email", "phone", "years_experience", "position", "location",
   "tech_stack", "technical_questions", "technical_answers",
   "conversation_complete"}

\* no field, no history, no stored language
EmptyRecord(data) ==
  /\ DOMAIN data \cap ResetFields = {}
  /\ Get(data, "conversation_history", << >>) = << >>
  /\ Get(data, "language", "en") = "en"

EmptyInMemory ==
  /\ EmptyRecord(candidate_data)
  /\ history = << >>
  /\ technical_questions = << >>
  /\ current_language = "en"

C17_RoundTrip ==
  \A k \in DOMAIN candidate_data :
    json_load(json_dump(candidate_data))[k] = candidate_data[k]

\* C18: a manager built while the file is missing, unreadable or corrupt
\* starts from an empty record; and when the write of a turn fails, the
\* reply is returned, memory has the turn, and the file is left as it was
C18_OnlyTheTurnIsLost ==
  [][/\ ((Called({"init"})
           /\ (disk = << >> \/ io = "unreadable"
                 \/ disk = <<Truncated>>)) =>
          /\ candidate_data' = EmptyDict
          /\ stage' = STAGES.greeting)
     /\ ((Called({"message", "exit"}) /\ io # "ok") =>
          /\ response' # NoReply
          /\ Has(candidate_data', "timestamp")
          /\ (last'.op = "message" =>
                candidate_data'["conversation_history"] = history'
                /\ LastTurn(history') = turn + 1)
          /\ disk' = disk)]_vars

\* C19: the stored technical_questions stay as they are in every later
\* turn, until reset_conversation
C19_QuestionsGeneratedOnce ==
  [][(Has(candidate_data, "technical_questions") /\ last'.op # "reset") =>
       /\ Has(candidate_data', "technical_questions")
       /\ candidate_data'["technical_questions"]
            = candidate_data["technical_questions"]
       /\ technical_questions' = technical_questions]_vars

\* two answers have been given to stored questions
C19_Witness ==
  /\ last.op = "message"
  /\ Has(candidate_data, "technical_questions")
  /\ technical_questions = candidate_data["technical_questions"]
  /\ Len(Questions) >= MIN_TECHNICAL_QUESTIONS
  /\ Len(Answers) = 2

\* the stage whose field(s) a reply asks the candidate for, "" if it asks
\* for none: by the information its prompt names, or by the canned text
Requests(reply) ==
  IF reply.kind = "llm"
    THEN CASE reply.next_info \in {"name", "full name"} -> "name"
           [] reply.next_info \in {"email address and phone number",
                                   "email address", "phone number"}
                -> "contact_info"
           [] reply.next_info = "years of experience in the industry"
                -> "experience"
           [] reply.next_info = "desired position or role" -> "position"
           [] reply.next_info = "current location" -> "location"
           [] reply.next_info = "tech stack" -> "tech_stack"
           [] OTHER -> ""
  ELSE IF reply.kind = "canned"
    THEN CASE reply.use_case = "greeting" -> "name"
           [] reply.use_case = "name" -> "contact_info"
           [] reply.use_case = "contact_info" -> "experience"
           [] reply.use_case = "experience" -> "position"
           [] reply.use_case = "position" -> "location"
           [] reply.use_case = "location" -> "tech_stack"
           [] OTHER -> ""
  ELSE ""

\* the turn ended in field-collection stage s with a field of s unset
EndedCollecting(s) ==
  /\ last.op = "message"
  /\ stage = STAGES[s]
  /\ ~(REQUIRED_FIELDS[s] \subseteq DOMAIN candidate_data)

\* C20: the reply of a turn that ends in a field-collection stage with a
\* field still unset asks for the field(s) of that stage
C20_ReplyRequestsOwnField ==
  \A s \in DOMAIN REQUIRED_FIELDS :
    EndedCollecting(s) => Requests(response) = s

\* C21: when every provider fails, the reply of a stage handler is the
\* canned text kept under the name of its own stage, never the apology
C21_CannedKeyedByStage ==
  \A s \in {"name", "contact_info", "experience", "position", "location",
           "tech_stack", "farewell"} :
    (last.op = "message" /\ last.handled = STAGES[s] /\ ~last.raised
       /\ response.kind = "canned") =>
      response.use_case = s

\* the candidate fields that are in the record after but not before
NewFields(before, after) ==
  {k \in CandidateFields : Has(after, k) /\ ~Has(before, k)}

\* C22: one process_message sets only fields of the stage that was active
\* when the message arrived, and a message that arrives before the
\* tech_stack stage does not start the technical questions
C22_OnlyFieldsOfActiveStage ==
  [][last'.op = "message" =>
       /\ NewFields(candidate_data, candidate_data') \subseteq StageFields(stage)
       /\ (stage < STAGES.tech_stack =>
             (Has(candidate_data', "technical_questions")
                => Has(candidate_data, "technical_questions")))]_vars

FieldStages == {STAGES[s] : s \in DOMAIN REQUIRED_FIELDS}

\* C23: a message that holds no value for the stage in which it arrives, a
\* field-collection stage, leaves every collected field as it was, adds no
\* technical questions, keeps the stage, and the turn handles no exception.
C23_NothingExtractedNothingChanges ==
  [][(last'.op = "message" /\ stage \in FieldStages /\ last'.found = {}) =>
       /\ SameOn(CandidateFields, candidate_data, candidate_data')
       /\ technical_questions' = technical_questions
       /\ SameOn({"technical_questions"}, candidate_data, candidate_data')
       /\ stage' = stage
       /\ ~last'.raised]_vars

C23_Witness ==
  /\ last.op = "message" /\ last.found = {} /\ ~last.raised
  /\ stage = STAGES.contact_info /\ last.handled = STAGES.contact_info
  /\ Has(candidate_data, "name") /\ ~Has(candidate_data, "email")
  /\ turn >= 3

\* the record and the stage that process_message leaves when the message
\* arrives while `language` is the active language (providers down)
TurnIn(language, message) ==
  LET t == turn + 1
      sw == auto_switch_language(message, language)
      d1 == IF sw.switched THEN Put(candidate_data, "language", sw.lang)
            ELSE candidate_data
      d2 == _extract_multilingual_info(d1, stage, message, sw.lang)
      r == _generate_response(d2, technical_questions, message, t, sw.lang,
                              FALSE, Apology, StackInReach(message), TRUE)
  IN  [data |-> r.data, stage |-> r.stage]

\* C24: the active language has no effect on the stage machine: the same
\* message, received with the same record under any two active languages,
\* leads to the same collected fields and the same stage.
C24_LanguageDoesNotSteer ==
  \A message \in {m \in Messages : ~m.exit}, language \in LocalizedLanguages :
    LET here == TurnIn(current_language, message)
        there == TurnIn(language, message)
    IN  /\ SameOn(CandidateFields, here.data, there.data)
        /\ here.stage = there.stage

LanguageKeys == {"language", "language_suggestion"}

\* what the switch policy requires of a step that received a message with
\* the detection recorded in last'
SwitchPolicy ==
  LET differs == last'.lang # current_language
      same_language == current_language' = current_language
      same_keys == SameOn(LanguageKeys, candidate_data, candidate_data')
  IN  /\ (differs /\ last'.conf >= 70) =>
            /\ current_language' = last'.lang
            /\ response'.notice
      /\ (differs /\ last'.conf >= 50 /\ last'.conf < 70) =>
            /\ same_language /\ ~response'.notice
            /\ Has(candidate_data', "language_suggestion")
            /\ SameOn({"language"}, candidate_data, candidate_data')
      /\ (differs /\ last'.conf < 50) =>
            same_language /\ same_keys /\ ~response'.notice
      /\ ~differs => same_language /\ same_keys /\ ~response'.notice

\* C25 as stated: every received message whose detected language differs
\* from the current one switches the language and emits a notice at
\* confidence >= 0.7, only records a suggestion at confidence in [0.5, 0.7),
\* and changes nothing below 0.5; a detected language equal to the current
\* one changes nothing.
C25_SwitchPolicy ==
  [][last'.op \in {"message", "exit"} => SwitchPolicy]_vars

\* C25, amended: the policy holds for every message that holds no exit
\* keyword; a message with an exit keyword ends the interview before its
\* language is looked at.
C25_SwitchPolicyOfHandledMessages ==
  [][last'.op = "message" => SwitchPolicy]_vars

C25_Witness ==
  /\ last.op = "message" /\ last.lang = "es" /\ last.conf >= 70
  /\ current_language = "es" /\ response.notice
  /\ Get(candidate_data, "language", "en") = "es"

\* the reply to the apology prompt, or the canned apology
IsApology(reply) ==
  \/ reply.kind = "llm" /\ reply.template = "apology"
  \/ reply.kind = "canned" /\ reply.use_case = "general"

FirstSource(resp) ==
  IF ~resp.bad /\ resp.json >= MIN_TECHNICAL_QUESTIONS THEN "json"
  ELSE IF resp.lines >= MIN_TECHNICAL_QUESTIONS THEN "line"
  ELSE "synthetic"

Sources(questions) == {questions[i].src : i \in 1..Len(questions)}

\* C28: the questions returned by generate_technical_questions come from the
\* first source that yields at least MIN_TECHNICAL_QUESTIONS items (JSON
\* array, then lines with a question mark, then one synthetic question per
\* technology); a malformed response raises nothing and the result never
\* has more than MAX_TECHNICAL_QUESTIONS items.
C28_FirstSourceWithEnoughQuestions ==
  (router.pc = "done" /\ router.tech_stack # << >>) =>
    /\ ~router.raised
    /\ Len(router.questions) <= MAX_TECHNICAL_QUESTIONS
    /\ router.questions # << >>
    /\ FirstSource(router.text) = "json" =>
          /\ Sources(router.questions) = {"json"}
          /\ Len(router.questions) =
               Smaller(router.text.json, MAX_TECHNICAL_QUESTIONS)
    /\ FirstSource(router.text) = "line" =>
          /\ Sources(router.questions) = {"line"}
          /\ Len(router.questions) =
               Smaller(router.text.lines, MAX_TECHNICAL_QUESTIONS)
    /\ FirstSource(router.text) = "synthetic" =>
          /\ Sources(router.questions) \in
               {{"please_explain"}, {"could_you_describe"}}
          /\ \A i \in 1..Len(router.questions) :
               router.questions[i].key = router.tech_stack[i]

\* C29: in stage contact_info a phone number written as a run of digits,
\* with or without a leading '+', is stored if and only if it has between 7
\* and 15 digits; no stored phone has fewer than 7 or more than 15 digits.
C29_PhoneStoredIffSevenToFifteenDigits ==
  extraction.stage = "contact_info" =>
    /\ Has(extraction.data, "phone") <=>
          (7 <= extraction.message.phone.digits
             /\ extraction.message.phone.digits <= 15)
    /\ Has(extraction.data, "phone") =>
          /\ 7 <= Digits(extraction.data["phone"])
          /\ Digits(extraction.data["phone"]) <= 15

\* C30: a stored years_experience is within [0, 50], an integer when the
\* number is whole and the written decimal otherwise; a number outside the
\* range followed by a year token leaves years_experience unset.
C30_ExperienceWithinRange ==
  extraction.stage = "experience" =>
    /\ Has(extraction.data, "years_experience") =>
          LET years == extraction.data["years_experience"]
          IN  /\ 0 <= years.tenths /\ years.tenths <= 500
              /\ years.int <=> (years.tenths % 10 = 0)
              /\ years.tenths = extraction.message.tenths
    /\ LET Written == IF extraction.message.negative
                         THEN 0 - extraction.message.tenths
                         ELSE extraction.message.tenths
       IN  (Written < 0 \/ Written > 500) =>
             ~Has(extraction.data, "years_experience")

\* the fields that only the waiting manager has collected
OnlyOther ==
  IF other = << >> THEN {}
  ELSE {k \in CandidateFields :
          Has(other[1].candidate_data, k) /\ ~Has(candidate_data, k)}

C31_TechStackInOrderOfOccurrence ==
  extraction.stage = "tech_stack" =>
    LET mentions == extraction.message.tech
        Canonical(word) ==
          LET known == {i \in 1..Len(tech_variations) :
                          tech_variations[i].variation = word}
          IN  IF known = {} THEN word
              ELSE tech_variations[CHOOSE i \in known : TRUE].full_name
        stack == IF Has(extraction.data, "tech_stack")
                   THEN extraction.data["tech_stack"] ELSE << >>
        first(name) == Min({i \in 1..Len(mentions) :
                              Canonical(mentions[i]) = name})
    IN  /\ {stack[i] : i \in 1..Len(stack)} =
             {Canonical(mentions[i]) : i \in 1..Len(mentions)}
        /\ \A i, j \in 1..Len(stack) :
             i < j => stack[i] # stack[j] /\ first(stack[i]) < first(stack[j])

\* C32: between two consecutive process_message calls the stage number never
\* decreases; only reset_conversation moves the session back.
C32_StageNeverDecreases ==
  [][last'.op \in {"message", "exit"} => stage' >= stage]_vars

\* a message received after the session was completed by an exit keyword in
\* a field-collection stage: the stage stays at complete
C32_Witness ==
  /\ last.op = "message"
  /\ stage = STAGES.complete
  /\ Unsatisfied(candidate_data) # {}

C34_QuestionCount ==
  extraction.stage = "questions" =>
    Len(extraction.data["questions"]) =
      Smaller(Larger(MIN_TECHNICAL_QUESTIONS,
                     Len(extraction.data["tech_stack"])),
              MAX_TECHNICAL_QUESTIONS)

\* C35: after every process_message and every switch_conversation_language
\* the history holds at most 2 * MAX_HISTORY_LENGTH entries: the most recent
\* entries it held before, in their order, followed by the entries of this
\* call, the last of which is the reply (or the marker of the switch).
C35_HistoryKeepsMostRecent ==
  [][last'.op \in {"message", "exit", "switch"} =>
       /\ Len(history') <= 2 * MAX_HISTORY_LENGTH
       /\ \E k \in 0..Smaller(Len(history), Len(history')) :
            /\ SubSeq(history', 1, k) =
                 SubSeq(history, Len(history) - k + 1, Len(history))
            /\ \A i \in (k + 1)..Len(history') : history'[i].turn = turn'
       /\ last'.op = "message" =>
            /\ history' # << >>
            /\ history'[Len(history')] = HistoryEntry("assistant", turn')
       /\ (last'.op = "switch" /\ history' # history) =>
            history'[Len(history')] = HistoryEntry("system", turn')]_vars

\* a reply was added to a history that was full and holds the marker of a
\* language switch: the oldest entries are gone
C35_Witness ==
  /\ last.op = "message"
  /\ Len(history) = 2 * MAX_HISTORY_LENGTH
  /\ history[1].turn > 1
  /\ \E i \in 1..Len(history) : history[i].role = "system"
====
